---- MODULE Spec2Model ----
(***************************************************************************)
(* State-machine model of statsd's UidMap                                  *)
(* (cmds/statsd/src/packages/UidMap.cpp).                                  *)
(*                                                                         *)
(* Every public method is one action: the methods that take mMutex run     *)
(* their critical section as one step, and the configuration callbacks     *)
(* are steps of their own.  The wire encoding of a snapshot is kept as     *)
(* the multiset of (uid, package, version) entries it lists, together      *)
(* with its size in bytes.                                                 *)
(***************************************************************************)
EXTENDS Integers, Sequences, FiniteSets, Bags, TLC

(***************************************************************************)
(* Bounds of the model.                                                    *)
(***************************************************************************)
\* Timestamps handed to the methods range over 0..MaxTime.
MaxTime == 1

Keys == {"k1", "k2"}
\* The threads that call into the UidMap, and the listeners there are.
Threads == {1, 2}
Listeners == {1}
Times == 0 .. MaxTime
\* The apps of the runs that exercise the logs and the watermarks.
Uids == {1}
Packages == {"a"}
Versions == {1}
\* updateMap receives vectors of at most MaxEntries elements: long enough to
\* list every app and one of them a second time.
MaxEntries == Cardinality(Uids \X Packages) + 1

(***************************************************************************)
(* Sizes, in bytes.  The header that sets them (UidMap.h, StatsdStats.h)   *)
(* gives sizeof(int64_t), sizeof(ChangeRecord) and 50 KiB; the model keeps *)
(* their order (timestamp field < change record < limit) at a scale that   *)
(* lets a handful of records fill the budget.                              *)
(***************************************************************************)
kBytesTimestampField == 2
kBytesChangeRecord == 2
kMaxBytesUsedUidMap == 4
\* Bytes one (name, version, uid) triple takes in the encoded snapshot.
BytesPerEntry == 1
\* The values maxBytesOverride is given: 0 (use the default limit) or a
\* lower limit that a two-entry snapshot alone exceeds.
OverrideValues == {0, 2}

VARIABLES
    mMap,                     \* multimap uid -> AppData, as a bag of entries
    mSnapshots,               \* list<SnapshotRecord>
    mChanges,                 \* list<ChangeRecord>
    mBytesUsed,               \* size_t, kept as the mathematical integer
    mLastUpdatePerConfigKey,  \* map ConfigKey -> int64
    maxBytesOverride,         \* size_t, set before use
    call,                     \* the method that completed last, its arguments
    proto,                    \* what the last appendUidMap wrote to its output
    lookup,                   \* the const method that returned last, its result
    expected,                 \* (uid, package) -> version, as the calls set it
    mIsolatedUidMap,          \* map isolated uid -> parent uid
    isolatedCall,             \* the isolated-uid method that completed last
    mMutex,                   \* the thread inside a lock_guard on mMutex, or 0
    mIsolatedMutex,           \* the same for mIsolatedMutex
    pc,                       \* where each thread is in the method it runs
    mSubscribers,             \* set<wp<PackageInfoListener>>
    alive,                    \* the listeners a wp can still be promoted to
    broadcastList,            \* each thread's local vector of listeners
    notified,                 \* the listeners each thread's loop has called
    raced                     \* whether two unsynchronized accesses overlapped

\* The fields that mMutex is documented to guard, with the history of calls.
mainVars == <<mMap, mSnapshots, mChanges, mBytesUsed, mLastUpdatePerConfigKey,
              maxBytesOverride, call, proto>>
lookupVars == <<lookup, expected>>
isolatedVars == <<mIsolatedUidMap, isolatedCall>>
threadVars == <<mMutex, mIsolatedMutex, pc, mSubscribers, alive,
                broadcastList, notified, raced>>

vars == <<mMap, mSnapshots, mChanges, mBytesUsed, mLastUpdatePerConfigKey,
          maxBytesOverride, call, proto, lookup, expected, mIsolatedUidMap,
          isolatedCall, mMutex, mIsolatedMutex, pc, mSubscribers, alive,
          broadcastList, notified, raced>>

(***************************************************************************)
(* Records.                                                                *)
(***************************************************************************)
AppData(uid, packageName, versionCode) ==
    [uid |-> uid, packageName |-> packageName, versionCode |-> versionCode]

ChangeRecord(deletion, timestampNs, package, uid, version) ==
    [deletion |-> deletion, timestampNs |-> timestampNs, package |-> package,
     uid |-> uid, version |-> version]

SnapshotRecord(timestampNs, bytes) ==
    [timestampNs |-> timestampNs, bytes |-> bytes]

\* The vectors updateMap receives, element j being (uid[j], packageName[j],
\* versionCode[j]), over the given uids, packages and versions.
EntryVectors(U, P, V) ==
    UNION {[1 .. n -> [uid : U, packageName : P, versionCode : V]] :
               n \in 0 .. MaxEntries}

RECURSIVE BagOfSeq(_)
\* The entries written by one pass over a vector, duplicates kept.
BagOfSeq(s) ==
    IF s = <<>> THEN EmptyBag
    ELSE BagOfSeq(Tail(s)) (+) SetToBag({Head(s)})

\* proto.size() of a snapshot message listing these entries.
ProtoSize(bytes) == BagCardinality(bytes) * BytesPerEntry

\* Bytes a retained snapshot is charged with.
SnapshotCost(record) == ProtoSize(record.bytes) + kBytesTimestampField

(***************************************************************************)
(* ensureBytesUsedBelowLimit                                               *)
(***************************************************************************)
Limit(override) == IF override <= 0 THEN kMaxBytesUsedUidMap ELSE override

RECURSIVE EvictLoopChangesFirst(_, _, _, _)
\* Mutant: the two branches swapped, so the front change goes before any
\* snapshot.
EvictLoopChangesFirst(snapshots, changes, bytes, limit) ==
    IF ~(bytes > limit)
    THEN [snapshots |-> snapshots, changes |-> changes, bytes |-> bytes,
          spin |-> FALSE]
    ELSE IF Len(changes) > 0
    THEN EvictLoopChangesFirst(snapshots, Tail(changes),
                               bytes - kBytesChangeRecord, limit)
    ELSE IF Len(snapshots) > 0
    THEN EvictLoopChangesFirst(Tail(snapshots), changes,
                               bytes - SnapshotCost(Head(snapshots)), limit)
    ELSE [snapshots |-> snapshots, changes |-> changes, bytes |-> bytes,
          spin |-> TRUE]

RECURSIVE EvictLoop(_, _, _, _)
\* The while loop: the front snapshot goes first, a change only when no
\* snapshot is left.  With both lists empty and the counter above the limit
\* no branch runs and the loop never exits (spin): the caller then never
\* returns, so the methods below complete only when spin is FALSE.
EvictLoop(snapshots, changes, bytes, limit) ==
    IF ~(bytes > limit)
    THEN [snapshots |-> snapshots, changes |-> changes, bytes |-> bytes,
          spin |-> FALSE]
    ELSE IF Len(snapshots) > 0
    THEN EvictLoop(Tail(snapshots), changes,
                   bytes - SnapshotCost(Head(snapshots)), limit)
    ELSE IF Len(changes) > 0
    THEN EvictLoop(snapshots, Tail(changes), bytes - kBytesChangeRecord, limit)
    ELSE [snapshots |-> snapshots, changes |-> changes, bytes |-> bytes,
          spin |-> TRUE]

\* Mutant: an `if` where the code has `while`, so at most one record goes.
ensureBytesUsedBelowLimitOnce(snapshots, changes, bytes) ==
    LET limit == Limit(maxBytesOverride)
    IN  IF bytes > limit /\ Len(snapshots) > 0
        THEN [snapshots |-> Tail(snapshots), changes |-> changes,
              bytes |-> bytes - SnapshotCost(Head(snapshots)), spin |-> FALSE]
        ELSE IF bytes > limit /\ Len(changes) > 0
        THEN [snapshots |-> snapshots, changes |-> Tail(changes),
              bytes |-> bytes - kBytesChangeRecord, spin |-> FALSE]
        ELSE [snapshots |-> snapshots, changes |-> changes, bytes |-> bytes,
              spin |-> FALSE]

ensureBytesUsedBelowLimit(snapshots, changes, bytes) ==
    EvictLoop(snapshots, changes, bytes, Limit(maxBytesOverride))

NoCall(op) == [op |-> op, key |-> "none", timestamp |-> 0,
               prevMin |-> 0, newMin |-> 0]
NoProto == [changes |-> <<>>, snapshots |-> <<>>]
\* No const method has returned yet.  Each kind of result has its field:
\* the int64 of getAppVersion, the set<string> of getAppNamesFromUid, the
\* set<int32_t> of getAppUid and the bool of hasApp.
NoLookup == [op |-> "none", uid |-> 0, packageName |-> "",
             returnNormalized |-> FALSE, version |-> 0, names |-> {},
             uids |-> {}, has |-> FALSE]
NoIsolatedCall == [op |-> "none", uid |-> 0, parentUid |-> 0, result |-> 0]
\* A thread that is in no method of the UidMap.
Idle == [op |-> "none", at |-> "idle", i |-> 0]

(***************************************************************************)
(* Initial state: the constructor.                                         *)
(***************************************************************************)
Init ==
    /\ mMap = EmptyBag
    /\ mSnapshots = <<>>
    /\ mChanges = <<>>
    /\ mBytesUsed = 0
    /\ mLastUpdatePerConfigKey = <<>>
    /\ maxBytesOverride \in OverrideValues
    /\ call = NoCall("UidMap")
    /\ proto = NoProto
    /\ lookup = NoLookup
    /\ expected = <<>>
    /\ mIsolatedUidMap = <<>>
    /\ isolatedCall = NoIsolatedCall
    /\ mMutex = 0
    /\ mIsolatedMutex = 0
    /\ pc = [th \in Threads |-> Idle]
    /\ mSubscribers = {}
    /\ alive = Listeners
    /\ broadcastList = [th \in Threads |-> <<>>]
    /\ notified = [th \in Threads |-> {}]
    /\ raced = FALSE

(***************************************************************************)
(* updateMap(timestamp, uid, versionCode, packageName)                     *)
(***************************************************************************)
\* mMap after clear() and one insert per element of the vectors.
InsertAll(entries) == BagOfSeq(entries)

updateMap(timestamp, entries) ==
    LET bytes == BagOfSeq(entries)
        e == ensureBytesUsedBelowLimit(
                 Append(mSnapshots, SnapshotRecord(timestamp, bytes)),
                 mChanges,
                 mBytesUsed + ProtoSize(bytes) + kBytesTimestampField)
    IN  /\ ~e.spin
        /\ mMap' = InsertAll(entries)
        /\ mSnapshots' = e.snapshots
        /\ mChanges' = e.changes
        /\ mBytesUsed' = e.bytes
        /\ call' = NoCall("updateMap")
        /\ proto' = NoProto
        /\ UNCHANGED <<mLastUpdatePerConfigKey, maxBytesOverride>>

(***************************************************************************)
(* updateApp(timestamp, app, uid, versionCode)                             *)
(***************************************************************************)
\* The entries of equal_range(uid) whose package name is the given one.
Matching(map, uid, packageName) ==
    {a \in BagToSet(map) : a.uid = uid /\ a.packageName = packageName}

\* The maps the search-then-insert of updateApp can leave: the first match
\* gets the new version, and without a match the app is inserted.
UpsertResults(map, app, uid, versionCode) ==
    IF Matching(map, uid, app) # {}
    THEN {(map (-) SetToBag({a})) (+) SetToBag({AppData(uid, app, versionCode)}) :
              a \in Matching(map, uid, app)}
    ELSE {map (+) SetToBag({AppData(uid, app, versionCode)})}

updateApp(timestamp, app, uid, versionCode) ==
    LET e == ensureBytesUsedBelowLimit(
                 mSnapshots,
                 Append(mChanges,
                        ChangeRecord(FALSE, timestamp, app, uid, versionCode)),
                 mBytesUsed + kBytesChangeRecord)
    IN  /\ ~e.spin
        /\ mSnapshots' = e.snapshots
        /\ mChanges' = e.changes
        /\ mBytesUsed' = e.bytes
        /\ mMap' \in UpsertResults(mMap, app, uid, versionCode)
        /\ call' = NoCall("updateApp")
        /\ proto' = NoProto
        /\ UNCHANGED <<mLastUpdatePerConfigKey, maxBytesOverride>>

(***************************************************************************)
(* removeApp(timestamp, app, uid)                                          *)
(***************************************************************************)
\* Mutant: the package name is not compared, so the first entry of the uid
\* is erased whatever its name.
EraseResultsAnyPackage(map, app, uid) ==
    LET range == {a \in BagToSet(map) : a.uid = uid}
    IN  IF range # {}
        THEN {map (-) SetToBag({a}) : a \in range}
        ELSE {map}

\* The maps the search-then-erase of removeApp can leave: the first match
\* is erased, and without a match the map is left alone.
EraseResults(map, app, uid) ==
    IF Matching(map, uid, app) # {}
    THEN {map (-) SetToBag({a}) : a \in Matching(map, uid, app)}
    ELSE {map}

removeApp(timestamp, app, uid) ==
    LET e == ensureBytesUsedBelowLimit(
                 mSnapshots,
                 Append(mChanges, ChangeRecord(TRUE, timestamp, app, uid, 0)),
                 mBytesUsed + kBytesChangeRecord)
    IN  /\ ~e.spin
        /\ mSnapshots' = e.snapshots
        /\ mChanges' = e.changes
        /\ mBytesUsed' = e.bytes
        /\ mMap' \in EraseResults(mMap, app, uid)
        /\ call' = [NoCall("removeApp") EXCEPT !.timestamp = timestamp]
        /\ proto' = NoProto
        /\ UNCHANGED <<mLastUpdatePerConfigKey, maxBytesOverride>>

(***************************************************************************)
(* clearOutput                                                             *)
(***************************************************************************)
\* Mutant: the lists are cleared and mBytesUsed is left as it was.
clearOutputKeepsBytes ==
    /\ mSnapshots' = <<>>
    /\ mChanges' = <<>>
    /\ call' = NoCall("clearOutput")
    /\ proto' = NoProto
    /\ UNCHANGED <<mMap, mBytesUsed, mLastUpdatePerConfigKey, maxBytesOverride>>

clearOutput ==
    /\ mSnapshots' = <<>>
    /\ mChanges' = <<>>
    /\ mBytesUsed' = 0
    /\ call' = NoCall("clearOutput")
    /\ proto' = NoProto
    /\ UNCHANGED <<mMap, mLastUpdatePerConfigKey, maxBytesOverride>>

(***************************************************************************)
(* getMinimumTimestampNs                                                   *)
(***************************************************************************)
RECURSIVE MinLoop(_, _, _)
\* The loop over the map's items in iteration order `order`, m being the
\* running result: an m of 0 is overwritten by the next item.
MinLoop(map, order, m) ==
    IF order = <<>> THEN m
    ELSE LET second == map[Head(order)]
         IN  MinLoop(map, Tail(order),
                     IF m = 0 THEN second
                     ELSE IF second < m THEN second ELSE m)

RECURSIVE Orders(_)
\* The orders in which a set of keys can be iterated.
Orders(keys) ==
    IF keys = {} THEN {<<>>}
    ELSE UNION {{<<k>> \o o : o \in Orders(keys \ {k})} : k \in keys}

\* The values getMinimumTimestampNs can return for a map: one per order in
\* which the container may hand out its items.
getMinimumTimestampNs(map) ==
    {MinLoop(map, order, 0) : order \in Orders(DOMAIN map)}

(***************************************************************************)
(* appendUidMap(timestamp, key, proto)                                     *)
(***************************************************************************)
\* mLastUpdatePerConfigKey[key] as operator[] reads it: a key that is not in
\* the map is inserted with the value 0.
Lookup(map, key) == IF key \in DOMAIN map THEN map[key] ELSE 0

\* Put(map, key, value): the map after map[key] = value.
Put(map, key, value) ==
    [k \in DOMAIN map \cup {key} |-> IF k = key THEN value ELSE map[k]]

\* Mutant: the watermark only ever moves forward.
ServedMax(map, key, timestamp) ==
    Put(map, key, IF key \in DOMAIN map /\ map[key] > timestamp
                  THEN map[key] ELSE timestamp)

\* Mutant: the watermark of a key that is in the map is left as it was.
ServedKeepsOld(map, key, timestamp) ==
    IF key \in DOMAIN map THEN map ELSE Put(map, key, timestamp)

\* The map after mLastUpdatePerConfigKey[key] = timestamp.
Served(map, key, timestamp) == Put(map, key, timestamp)

\* Mutant: >= where the code compares with >.
SelectChangesInclusive(changes, last) ==
    SelectSeq(changes, LAMBDA record : record.timestampNs >= last)

\* The changes written to the output: those after the consumer's last update.
SelectChanges(changes, last) ==
    SelectSeq(changes, LAMBDA record : record.timestampNs > last)

RECURSIVE SnapshotLoop(_, _, _, _, _, _)
\* The loop over mSnapshots from position i on; count and atLeastOneSnapshot
\* are the loop's locals, out the snapshots written so far.
SnapshotLoop(snapshots, last, i, count, atLeastOneSnapshot, out) ==
    IF i > Len(snapshots) THEN out
    ELSE IF \/ (count = Len(snapshots) - 1 /\ ~atLeastOneSnapshot)
            \/ snapshots[i].timestampNs > last
    THEN SnapshotLoop(snapshots, last, i + 1, count + 1, TRUE,
                      Append(out, snapshots[i]))
    ELSE SnapshotLoop(snapshots, last, i + 1, count, atLeastOneSnapshot, out)

SelectSnapshots(snapshots, last) ==
    SnapshotLoop(snapshots, last, 1, 0, FALSE, <<>>)

\* Whether the two loops evaluate mLastUpdatePerConfigKey[key] at all: once
\* per change, and per snapshot unless the left operand of || decides, which
\* it does only for the single snapshot of a one-element list.
ReadsLastUpdate(snapshots, changes) ==
    Len(changes) > 0 \/ Len(snapshots) >= 2

\* The purge: every record older than the cutoff is erased and its bytes
\* given back.
PurgeSnapshots(snapshots, cutoff_nanos) ==
    SelectSeq(snapshots, LAMBDA record : ~(record.timestampNs < cutoff_nanos))

PurgeChanges(changes, cutoff_nanos) ==
    SelectSeq(changes, LAMBDA record : ~(record.timestampNs < cutoff_nanos))

RECURSIVE SumCost(_)
SumCost(snapshots) ==
    IF snapshots = <<>> THEN 0
    ELSE SnapshotCost(Head(snapshots)) + SumCost(Tail(snapshots))

\* Mutant: the loop over mMap is left out, so the snapshot lists no app.
ProducedSnapshotEmpty(timestamp, map) == SnapshotRecord(timestamp, EmptyBag)

\* The snapshot produced when the purge leaves none: the current mMap,
\* stamped with the timestamp of the call.
ProducedSnapshot(timestamp, map) == SnapshotRecord(timestamp, map)

\* Mutant: the produced snapshot is not added to mBytesUsed.
PurgedUncharged(snapshots, changes, bytes, cutoff_nanos, timestamp, map) ==
    LET keptS == SelectSeq(snapshots,
                           LAMBDA r : ~(r.timestampNs < cutoff_nanos))
        keptC == SelectSeq(changes, LAMBDA r : ~(r.timestampNs < cutoff_nanos))
        b == bytes - (SumCost(snapshots) - SumCost(keptS))
                   - kBytesChangeRecord * (Len(changes) - Len(keptC))
    IN  IF Len(keptS) = 0
        THEN [snapshots |-> <<SnapshotRecord(timestamp, map)>>,
              changes |-> keptC, bytes |-> b]
        ELSE [snapshots |-> keptS, changes |-> keptC, bytes |-> b]

\* Mutant: no snapshot is produced when the purge leaves none.
PurgedNoSnapshot(snapshots, changes, bytes, cutoff_nanos, timestamp, map) ==
    LET keptS == SelectSeq(snapshots,
                           LAMBDA r : ~(r.timestampNs < cutoff_nanos))
        keptC == SelectSeq(changes, LAMBDA r : ~(r.timestampNs < cutoff_nanos))
        b == bytes - (SumCost(snapshots) - SumCost(keptS))
                   - kBytesChangeRecord * (Len(changes) - Len(keptC))
    IN  [snapshots |-> keptS, changes |-> keptC, bytes |-> b]

\* Lists and counter after the block guarded by newMin > prevMin.
Purged(snapshots, changes, bytes, cutoff_nanos, timestamp, map) ==
    LET keptS == PurgeSnapshots(snapshots, cutoff_nanos)
        keptC == PurgeChanges(changes, cutoff_nanos)
        b == bytes - (SumCost(snapshots) - SumCost(keptS))
                   - kBytesChangeRecord * (Len(changes) - Len(keptC))
    IN  IF Len(keptS) = 0
        THEN [snapshots |-> <<ProducedSnapshot(timestamp, map)>>,
              changes |-> keptC,
              bytes |-> b + kBytesTimestampField + ProtoSize(map)]
        ELSE [snapshots |-> keptS, changes |-> keptC, bytes |-> b]

appendUidMap(timestamp, key) ==
    LET last == Lookup(mLastUpdatePerConfigKey, key)
        read == IF key \notin DOMAIN mLastUpdatePerConfigKey
                   /\ ReadsLastUpdate(mSnapshots, mChanges)
                THEN Put(mLastUpdatePerConfigKey, key, 0)
                ELSE mLastUpdatePerConfigKey
        written == Served(read, key, timestamp)
    IN  \E prevMin \in getMinimumTimestampNs(read),
           newMin \in getMinimumTimestampNs(written) :
          LET p == IF newMin > prevMin
                   THEN Purged(mSnapshots, mChanges, mBytesUsed, newMin,
                               timestamp, mMap)
                   ELSE [snapshots |-> mSnapshots, changes |-> mChanges,
                         bytes |-> mBytesUsed]
          IN  \* an assignment to a key that is in the map moves no item,
              \* so both calls iterate in one order; an insertion may
              \* reorder the items
              /\ DOMAIN read = DOMAIN written =>
                     \E order \in Orders(DOMAIN read) :
                         /\ prevMin = MinLoop(read, order, 0)
                         /\ newMin = MinLoop(written, order, 0)
              /\ proto' = [changes |-> SelectChanges(mChanges, last),
                           snapshots |-> SelectSnapshots(mSnapshots, last)]
              /\ mLastUpdatePerConfigKey' = written
              /\ mSnapshots' = p.snapshots
              /\ mChanges' = p.changes
              /\ mBytesUsed' = p.bytes
              /\ call' = [op |-> "appendUidMap", key |-> key,
                          timestamp |-> timestamp,
                          prevMin |-> prevMin, newMin |-> newMin]
              /\ UNCHANGED <<mMap, maxBytesOverride>>

(***************************************************************************)
(* OnConfigUpdated(key), OnConfigRemoved(key)                              *)
(***************************************************************************)
\* The request for a uid snapshot that OnConfigUpdated sends when there is
\* no snapshot changes nothing here: the reply, if any, is a later updateMap.
OnConfigUpdated(key) ==
    /\ mLastUpdatePerConfigKey' = Put(mLastUpdatePerConfigKey, key, -1)
    /\ call' = [NoCall("OnConfigUpdated") EXCEPT !.key = key]
    /\ proto' = NoProto
    /\ UNCHANGED <<mMap, mSnapshots, mChanges, mBytesUsed, maxBytesOverride>>

\* Mutant: the purge of appendUidMap runs as soon as the erased watermark
\* lets the minimum move forward.
OnConfigRemovedPurging(key) ==
    LET erased == [k \in DOMAIN mLastUpdatePerConfigKey \ {key} |->
                       mLastUpdatePerConfigKey[k]]
    IN  \E prevMin \in getMinimumTimestampNs(mLastUpdatePerConfigKey),
           newMin \in getMinimumTimestampNs(erased) :
          LET p == IF newMin > prevMin
                   THEN PurgedNoSnapshot(mSnapshots, mChanges, mBytesUsed,
                                         newMin, 0, mMap)
                   ELSE [snapshots |-> mSnapshots, changes |-> mChanges,
                         bytes |-> mBytesUsed]
          IN  /\ mLastUpdatePerConfigKey' = erased
              /\ mSnapshots' = p.snapshots
              /\ mChanges' = p.changes
              /\ mBytesUsed' = p.bytes
              /\ call' = [NoCall("OnConfigRemoved") EXCEPT !.key = key]
              /\ proto' = NoProto
              /\ UNCHANGED <<mMap, maxBytesOverride>>

OnConfigRemoved(key) ==
    /\ mLastUpdatePerConfigKey' =
           [k \in DOMAIN mLastUpdatePerConfigKey \ {key} |->
                mLastUpdatePerConfigKey[k]]
    /\ call' = [NoCall("OnConfigRemoved") EXCEPT !.key = key]
    /\ proto' = NoProto
    /\ UNCHANGED <<mMap, mSnapshots, mChanges, mBytesUsed, maxBytesOverride>>

\* The methods called with timestamps T, uids U, packages P, versions V and
\* configuration keys K, one call returning before the next begins.
Calls(T, U, P, V, K) ==
    \/ \E t \in T, entries \in EntryVectors(U, P, V) :
           updateMap(t, entries)
               /\ UNCHANGED <<lookupVars, isolatedVars, threadVars>>
    \/ \E t \in T, app \in P, uid \in U, v \in V :
           updateApp(t, app, uid, v)
               /\ UNCHANGED <<lookupVars, isolatedVars, threadVars>>
    \/ \E t \in T, app \in P, uid \in U :
           removeApp(t, app, uid)
               /\ UNCHANGED <<lookupVars, isolatedVars, threadVars>>
    \/ \E t \in T, key \in K :
           appendUidMap(t, key)
               /\ UNCHANGED <<lookupVars, isolatedVars, threadVars>>
    \/ \E key \in K :
           OnConfigUpdated(key)
               /\ UNCHANGED <<lookupVars, isolatedVars, threadVars>>
    \/ \E key \in K :
           OnConfigRemoved(key)
               /\ UNCHANGED <<lookupVars, isolatedVars, threadVars>>
    \/ clearOutput /\ UNCHANGED <<lookupVars, isolatedVars, threadVars>>

Next == Calls(Times, Uids, Packages, Versions, Keys)

Spec == Init /\ [][Next]_vars

(***************************************************************************)
(* The same methods over two uids and two packages, with one timestamp and *)
(* one configuration key: the runs that exercise the contents of mMap.     *)
(***************************************************************************)
StoreUids == {1, 2}
StorePackages == {"a", "b"}

NextStore == Calls({0}, StoreUids, StorePackages, Versions, {"k1"})

SpecStore == Init /\ [][NextStore]_vars

(***************************************************************************)
(* hasApp, getAppNamesFromUid, getAppVersion, getAppUid: the const methods *)
(* that read mMap, and the runs that compare what they return with what    *)
(* updateMap, updateApp and removeApp were called with.                    *)
(***************************************************************************)
LookupUids == {1, 2}
\* Two names that differ in case only.
LookupPackages == {"a", "A"}
\* 0 is a version code like any other.
LookupVersions == {0, 1}

\* ::tolower over each character of the name.
normalizeAppName(appName) ==
    CASE appName = "A" -> "a"
      [] appName = "B" -> "b"
      [] OTHER -> appName

\* The loop over equal_range(uid) of getAppNamesFromUidLocked.
getAppNamesFromUidLocked(map, uid, returnNormalized) ==
    {IF returnNormalized THEN normalizeAppName(a.packageName)
     ELSE a.packageName : a \in {b \in BagToSet(map) : b.uid = uid}}

\* What getAppVersion can return: the version of the first entry of
\* equal_range(uid) with the package name, which is any of them when there
\* are several, and 0 after a loop that found none.
AppVersions(map, uid, packageName) ==
    IF Matching(map, uid, packageName) # {}
    THEN {a.versionCode : a \in Matching(map, uid, packageName)}
    ELSE {0}

hasApp(uid, packageName) ==
    /\ lookup' = [NoLookup EXCEPT !.op = "hasApp", !.uid = uid,
                                  !.packageName = packageName,
                                  !.has = Matching(mMap, uid, packageName) # {}]
    /\ UNCHANGED expected

getAppNamesFromUid(uid, returnNormalized) ==
    /\ lookup' = [NoLookup EXCEPT
                      !.op = "getAppNamesFromUid", !.uid = uid,
                      !.returnNormalized = returnNormalized,
                      !.names = getAppNamesFromUidLocked(mMap, uid,
                                                         returnNormalized)]
    /\ UNCHANGED expected

getAppVersion(uid, packageName) ==
    /\ \E versionCode \in AppVersions(mMap, uid, packageName) :
           lookup' = [NoLookup EXCEPT !.op = "getAppVersion", !.uid = uid,
                                      !.packageName = packageName,
                                      !.version = versionCode]
    /\ UNCHANGED expected

getAppUid(package) ==
    /\ lookup' = [NoLookup EXCEPT
                      !.op = "getAppUid", !.packageName = package,
                      !.uids = {a.uid : a \in {b \in BagToSet(mMap) :
                                                   b.packageName = package}}]
    /\ UNCHANGED expected

\* No two elements of the vectors have both the uid and the package name in
\* common.
DistinctPairs(entries) ==
    \A i, j \in DOMAIN entries :
        (entries[i].uid = entries[j].uid
             /\ entries[i].packageName = entries[j].packageName) => i = j

\* What the callers expect of the store after each of the three updates:
\* the pairs listed and nothing else, the pair set to a version, the pair
\* gone.
ExpectedOfMap(entries) ==
    [pair \in {<<entries[i].uid, entries[i].packageName>> :
                   i \in DOMAIN entries} |->
        LET i == CHOOSE j \in DOMAIN entries :
                     <<entries[j].uid, entries[j].packageName>> = pair
        IN  entries[i].versionCode]

ExpectedOfApp(app, uid, versionCode) ==
    Put(expected, <<uid, app>>, versionCode)

ExpectedOfRemove(app, uid) ==
    [pair \in DOMAIN expected \ {<<uid, app>>} |-> expected[pair]]

\* updateMap with vectors of distinct pairs, updateApp and removeApp, and
\* the const methods, over two uids, two packages and two versions.
NextLookup ==
    \/ \E entries \in EntryVectors(LookupUids, LookupPackages, LookupVersions) :
           /\ DistinctPairs(entries)
           /\ updateMap(0, entries)
           /\ lookup' = NoLookup
           /\ expected' = ExpectedOfMap(entries)
           /\ UNCHANGED <<isolatedVars, threadVars>>
    \/ \E app \in LookupPackages, uid \in LookupUids, v \in LookupVersions :
           /\ updateApp(0, app, uid, v)
           /\ lookup' = NoLookup
           /\ expected' = ExpectedOfApp(app, uid, v)
           /\ UNCHANGED <<isolatedVars, threadVars>>
    \/ \E app \in LookupPackages, uid \in LookupUids :
           /\ removeApp(0, app, uid)
           /\ lookup' = NoLookup
           /\ expected' = ExpectedOfRemove(app, uid)
           /\ UNCHANGED <<isolatedVars, threadVars>>
    \/ \E uid \in LookupUids, packageName \in LookupPackages :
           hasApp(uid, packageName)
               /\ UNCHANGED <<mainVars, isolatedVars, threadVars>>
    \/ \E uid \in LookupUids, returnNormalized \in BOOLEAN :
           getAppNamesFromUid(uid, returnNormalized)
               /\ UNCHANGED <<mainVars, isolatedVars, threadVars>>
    \/ \E uid \in LookupUids, packageName \in LookupPackages :
           getAppVersion(uid, packageName)
               /\ UNCHANGED <<mainVars, isolatedVars, threadVars>>
    \/ \E package \in LookupPackages :
           getAppUid(package)
               /\ UNCHANGED <<mainVars, isolatedVars, threadVars>>

\* The constructor, with the limit set to the lower of its two values: most
\* updates then evict and the first ones do not.
InitLookup == Init /\ maxBytesOverride = 2

SpecLookup == InitLookup /\ [][NextLookup]_vars

(***************************************************************************)
(* assignIsolatedUid, removeIsolatedUid, getHostUidOrSelf                  *)
(***************************************************************************)
\* The uids the three methods are called with.
IsolatedUids == {1, 2, 3}

assignIsolatedUid(isolatedUid, parentUid) ==
    /\ mIsolatedUidMap' = Put(mIsolatedUidMap, isolatedUid, parentUid)
    /\ isolatedCall' = [op |-> "assignIsolatedUid", uid |-> isolatedUid,
                        parentUid |-> parentUid, result |-> 0]

\* Mutant: the entry is erased only when it holds the parent given.
removeIsolatedUidOfParent(isolatedUid, parentUid) ==
    /\ mIsolatedUidMap' =
           IF isolatedUid \in DOMAIN mIsolatedUidMap
              /\ mIsolatedUidMap[isolatedUid] = parentUid
           THEN [u \in DOMAIN mIsolatedUidMap \ {isolatedUid} |->
                     mIsolatedUidMap[u]]
           ELSE mIsolatedUidMap
    /\ isolatedCall' = [op |-> "removeIsolatedUid", uid |-> isolatedUid,
                        parentUid |-> parentUid, result |-> 0]

removeIsolatedUid(isolatedUid, parentUid) ==
    /\ mIsolatedUidMap' =
           IF isolatedUid \in DOMAIN mIsolatedUidMap
           THEN [u \in DOMAIN mIsolatedUidMap \ {isolatedUid} |->
                     mIsolatedUidMap[u]]
           ELSE mIsolatedUidMap
    /\ isolatedCall' = [op |-> "removeIsolatedUid", uid |-> isolatedUid,
                        parentUid |-> parentUid, result |-> 0]

getHostUidOrSelf(uid) ==
    /\ isolatedCall' = [op |-> "getHostUidOrSelf", uid |-> uid,
                        parentUid |-> 0,
                        result |-> IF uid \in DOMAIN mIsolatedUidMap
                                   THEN mIsolatedUidMap[uid] ELSE uid]
    /\ UNCHANGED mIsolatedUidMap

NextIsolated ==
    \/ \E isolatedUid \in IsolatedUids, parentUid \in IsolatedUids :
           assignIsolatedUid(isolatedUid, parentUid)
               /\ UNCHANGED <<mainVars, lookupVars, threadVars>>
    \/ \E isolatedUid \in IsolatedUids, parentUid \in IsolatedUids :
           removeIsolatedUid(isolatedUid, parentUid)
               /\ UNCHANGED <<mainVars, lookupVars, threadVars>>
    \/ \E uid \in IsolatedUids :
           getHostUidOrSelf(uid)
               /\ UNCHANGED <<mainVars, lookupVars, threadVars>>

SpecIsolated == Init /\ [][NextIsolated]_vars

(***************************************************************************)
(* The methods as the threads run them.  A method that takes mMutex is     *)
(* three kinds of step: the lock_guard is constructed (Acquire), the       *)
(* critical section runs to its closing brace (Section), and the listeners *)
(* of the local copy are called one by one (Callback).  A method without   *)
(* lock_guard is entered (Enter) and runs (Finish).  addListener and       *)
(* removeListener are one critical section each; a listener's last strong  *)
(* reference can go away at any time (ListenerDies).                       *)
(***************************************************************************)
\* The methods that end by calling the listeners.
Mutators == {"updateMap", "updateApp", "removeApp"}
LockedOps == Mutators \cup {"appendUidMap"}
UnlockedOps == {"OnConfigUpdated", "OnConfigRemoved", "clearOutput"}

\* The fields a method writes and the fields it only reads.
Writes(op) ==
    CASE op = "updateMap" ->
             {"mMap", "mSnapshots", "mChanges", "mBytesUsed", "mSubscribers"}
      [] op \in {"updateApp", "removeApp"} ->
             {"mMap", "mSnapshots", "mChanges", "mBytesUsed", "mSubscribers"}
      [] op = "appendUidMap" ->
             {"mLastUpdatePerConfigKey", "mSnapshots", "mChanges",
              "mBytesUsed"}
      [] op = "OnConfigUpdated" -> {"mLastUpdatePerConfigKey"}
      [] op = "OnConfigRemoved" -> {"mLastUpdatePerConfigKey"}
      [] op = "clearOutput" -> {"mSnapshots", "mChanges", "mBytesUsed"}
      [] OTHER -> {}

Reads(op) ==
    CASE op = "appendUidMap" -> {"mMap"}
      [] op = "OnConfigUpdated" -> {"mSnapshots"}
      [] OTHER -> {}

\* Two methods running at once form a data race when one writes a field the
\* other reads or writes.
Conflict(op1, op2) ==
    \/ Writes(op1) \cap (Writes(op2) \cup Reads(op2)) # {}
    \/ Writes(op2) \cap Reads(op1) # {}

\* A thread that is inside the body of a method.
InBody(th) == pc[th].at \in {"locked", "running"}

RECURSIVE SortedSeq(_)
\* The elements of a set in the order a std::set iterates over them.
SortedSeq(S) ==
    IF S = {} THEN <<>>
    ELSE LET least == CHOOSE x \in S : \A y \in S : x <= y
         IN  <<least>> \o SortedSeq(S \ {least})

\* Mutant: every subscriber is copied, promoted or not, and none is erased.
getListenerListCopyUnchecked(subscribers, promotable) ==
    [output |-> SortedSeq(subscribers), subscribers |-> subscribers]

\* getListenerListCopyLocked: the subscribers that promote() are pushed to
\* the output, the others are erased from mSubscribers.
getListenerListCopyLocked(subscribers, promotable) ==
    [output |-> SortedSeq(subscribers \cap promotable),
     subscribers |-> subscribers \cap promotable]

addListener(producer) ==
    /\ mMutex = 0
    /\ ~raced
    /\ mSubscribers' = mSubscribers \cup {producer}
    /\ UNCHANGED <<mainVars, lookupVars, isolatedVars, mIsolatedMutex, mMutex,
                   pc, alive, broadcastList, notified, raced>>

removeListener(producer) ==
    /\ mMutex = 0
    /\ ~raced
    /\ mSubscribers' = mSubscribers \ {producer}
    /\ UNCHANGED <<mainVars, lookupVars, isolatedVars, mIsolatedMutex, mMutex,
                   pc, alive, broadcastList, notified, raced>>

\* The last sp<> to a listener is dropped: promote() fails from now on.
ListenerDies(listener) ==
    /\ listener \in alive
    /\ ~raced
    /\ alive' = alive \ {listener}
    /\ UNCHANGED <<mainVars, lookupVars, isolatedVars, mIsolatedMutex, mMutex,
                   pc, mSubscribers, broadcastList, notified, raced>>

\* lock_guard<mutex> lock(mMutex): the thread waits until the mutex is free.
Acquire(th, op) ==
    /\ pc[th] = Idle
    /\ ~raced
    /\ mMutex = 0
    /\ mMutex' = th
    /\ pc' = [pc EXCEPT ![th] = [op |-> op, at |-> "locked", i |-> 0]]
    /\ raced' = \E other \in Threads \ {th} :
                    InBody(other) /\ Conflict(op, pc[other].op)
    /\ UNCHANGED <<mainVars, lookupVars, isolatedVars, mIsolatedMutex,
                   mSubscribers, alive, broadcastList, notified>>

\* The critical section of the method the thread is in, to the end of the
\* scope of its lock_guard.
Section(th, T, U, P, V, K) ==
    /\ pc[th].at = "locked"
    /\ ~raced
    /\ mMutex' = 0
    /\ CASE pc[th].op = "updateMap" ->
                \E t \in T, entries \in EntryVectors(U, P, V) :
                    updateMap(t, entries)
         [] pc[th].op = "updateApp" ->
                \E t \in T, app \in P, uid \in U, v \in V :
                    updateApp(t, app, uid, v)
         [] pc[th].op = "removeApp" ->
                \E t \in T, app \in P, uid \in U : removeApp(t, app, uid)
         [] pc[th].op = "appendUidMap" ->
                \E t \in T, key \in K : appendUidMap(t, key)
    /\ IF pc[th].op \in Mutators
       THEN LET copy == getListenerListCopyLocked(mSubscribers, alive)
            IN  /\ broadcastList' = [broadcastList EXCEPT ![th] = copy.output]
                /\ mSubscribers' = copy.subscribers
                /\ notified' = [notified EXCEPT ![th] = {}]
                /\ pc' = [pc EXCEPT ![th] =
                              IF copy.output = <<>> THEN Idle
                              ELSE [op |-> pc[th].op, at |-> "notify",
                                    i |-> 1]]
       ELSE /\ pc' = [pc EXCEPT ![th] = Idle]
            /\ UNCHANGED <<broadcastList, mSubscribers, notified>>
    /\ UNCHANGED <<lookupVars, isolatedVars, mIsolatedMutex, alive, raced>>

\* One turn of the loop over broadcastList: the listener is called when its
\* weak pointer still promotes.
Callback(th) ==
    /\ pc[th].at = "notify"
    /\ ~raced
    /\ LET weakPtr == broadcastList[th][pc[th].i]
       IN  notified' = [notified EXCEPT ![th] =
                           IF weakPtr \in alive THEN @ \cup {weakPtr} ELSE @]
    /\ pc' = [pc EXCEPT ![th] =
                  IF pc[th].i = Len(broadcastList[th]) THEN Idle
                  ELSE [@ EXCEPT !.i = @ + 1]]
    /\ UNCHANGED <<mainVars, lookupVars, isolatedVars, mIsolatedMutex, mMutex,
                   mSubscribers, alive, broadcastList, raced>>

\* A method without lock_guard begins, whoever holds mMutex.
Enter(th, op) ==
    /\ pc[th] = Idle
    /\ ~raced
    /\ pc' = [pc EXCEPT ![th] = [op |-> op, at |-> "running", i |-> 0]]
    /\ raced' = \E other \in Threads \ {th} :
                    InBody(other) /\ Conflict(op, pc[other].op)
    /\ UNCHANGED <<mainVars, lookupVars, isolatedVars, mIsolatedMutex, mMutex,
                   mSubscribers, alive, broadcastList, notified>>

Finish(th, K) ==
    /\ pc[th].at = "running"
    /\ ~raced
    /\ CASE pc[th].op = "OnConfigUpdated" -> \E key \in K : OnConfigUpdated(key)
         [] pc[th].op = "OnConfigRemoved" -> \E key \in K : OnConfigRemoved(key)
         [] pc[th].op = "clearOutput" -> clearOutput
    /\ pc' = [pc EXCEPT ![th] = Idle]
    /\ UNCHANGED <<lookupVars, isolatedVars, mIsolatedMutex, mMutex,
                   mSubscribers, alive, broadcastList, notified, raced>>

NextThreads ==
    \/ \E th \in Threads, op \in LockedOps : Acquire(th, op)
    \/ \E th \in Threads : Section(th, {0}, Uids, Packages, Versions, {"k1"})
    \/ \E th \in Threads : Callback(th)
    \/ \E th \in Threads, op \in UnlockedOps : Enter(th, op)
    \/ \E th \in Threads : Finish(th, {"k1"})
    \/ \E producer \in Listeners : addListener(producer)
    \/ \E producer \in Listeners : removeListener(producer)
    \/ \E listener \in Listeners : ListenerDies(listener)

SpecThreads == Init /\ [][NextThreads]_vars

(***************************************************************************)
(* The two mutexes.  assignIsolatedUid, removeIsolatedUid and              *)
(* getHostUidOrSelf construct a lock_guard on mIsolatedMutex               *)
(* (AcquireIsolated) and run to their closing brace (SectionIsolated),     *)
(* while the other thread is anywhere in a method that takes mMutex.       *)
(***************************************************************************)
IsolatedOps == {"assignIsolatedUid", "removeIsolatedUid", "getHostUidOrSelf"}

\* Mutant: the lock_guard is on mMutex, with mIsolatedMutex taken inside.
AcquireIsolatedUnderMain(th, op) ==
    /\ pc[th] = Idle
    /\ ~raced
    /\ mMutex = 0
    /\ mIsolatedMutex = 0
    /\ mMutex' = th
    /\ mIsolatedMutex' = th
    /\ pc' = [pc EXCEPT ![th] = [op |-> op, at |-> "isolated", i |-> 0]]
    /\ UNCHANGED <<mainVars, lookupVars, isolatedVars, mSubscribers, alive,
                   broadcastList, notified, raced>>

\* lock_guard<mutex> lock(mIsolatedMutex): the thread waits until that mutex
\* is free, whoever holds mMutex.
AcquireIsolated(th, op) ==
    /\ pc[th] = Idle
    /\ ~raced
    /\ mIsolatedMutex = 0
    /\ mIsolatedMutex' = th
    /\ pc' = [pc EXCEPT ![th] = [op |-> op, at |-> "isolated", i |-> 0]]
    /\ UNCHANGED <<mainVars, lookupVars, isolatedVars, mMutex, mSubscribers,
                   alive, broadcastList, notified, raced>>

\* The body of the method, to the end of the scope of its lock_guard: every
\* mutex the thread holds is released.
SectionIsolated(th, I, P) ==
    /\ pc[th].at = "isolated"
    /\ ~raced
    /\ mIsolatedMutex' = 0
    /\ mMutex' = IF mMutex = th THEN 0 ELSE mMutex
    /\ CASE pc[th].op = "assignIsolatedUid" ->
                \E isolatedUid \in I, parentUid \in P :
                    assignIsolatedUid(isolatedUid, parentUid)
         [] pc[th].op = "removeIsolatedUid" ->
                \E isolatedUid \in I, parentUid \in P :
                    removeIsolatedUid(isolatedUid, parentUid)
         [] pc[th].op = "getHostUidOrSelf" ->
                \E uid \in I : getHostUidOrSelf(uid)
    /\ pc' = [pc EXCEPT ![th] = Idle]
    /\ UNCHANGED <<mainVars, lookupVars, mSubscribers, alive, broadcastList,
                   notified, raced>>

\* Two threads, each calling the methods that take mMutex and the methods
\* that take mIsolatedMutex, with one listener that stays alive.
NextLocks ==
    \/ \E th \in Threads, op \in LockedOps : Acquire(th, op)
    \/ \E th \in Threads : Section(th, {0}, Uids, Packages, Versions, {"k1"})
    \/ \E th \in Threads : Callback(th)
    \/ \E th \in Threads, op \in IsolatedOps : AcquireIsolated(th, op)
    \/ \E th \in Threads : SectionIsolated(th, {1}, {2})
    \/ \E producer \in Listeners : addListener(producer)
    \/ \E producer \in Listeners : removeListener(producer)

SpecLocks == Init /\ [][NextLocks]_vars

(***************************************************************************)
(* Properties.                                                             *)
(***************************************************************************)
\* A step that completes appendUidMap: only that method names itself in call.
Reconciled == call'.op = "appendUidMap" /\ vars' # vars
\* The last appendUidMap purged: the minimum watermark moved forward.
PurgeRan == call.op = "appendUidMap" /\ call.newMin > call.prevMin
\* The smallest watermark of a non-empty map.
TrueMin(map) == CHOOSE m \in {map[k] : k \in DOMAIN map} :
                    \A k \in DOMAIN map : m <= map[k]
\* Whether a record is among the elements of a list.
In(record, list) == \E i \in DOMAIN list : list[i] = record

\* C1: when updateMap, updateApp or removeApp has completed, mBytesUsed is at
\* most the limit: maxBytesOverride when positive, else kMaxBytesUsedUidMap.
C1_BytesWithinLimitAfterMutation ==
    call.op \in Mutators =>
        mBytesUsed <= (IF maxBytesOverride > 0 THEN maxBytesOverride
                       ELSE kMaxBytesUsedUidMap)

\* An updateMap whose own snapshot exceeded the limit and was evicted with
\* everything before it.
C1_Witness ==
    /\ call.op = "updateMap"
    /\ mSnapshots = <<>>
    /\ mMap # EmptyBag
    /\ mBytesUsed <= Limit(maxBytesOverride)

\* C2: mBytesUsed is the sum, over the retained snapshots, of encoded size
\* plus timestamp field, plus the per-change size times the number of
\* retained changes; it is never negative.
C2_BytesUsedIsSumOfRetained ==
    /\ mBytesUsed = SumCost(mSnapshots) + Len(mChanges) * kBytesChangeRecord
    /\ mBytesUsed >= 0

\* An appendUidMap that purged returned snapshots and a change and produced
\* a snapshot of a non-empty map.
C2_Witness ==
    /\ PurgeRan
    /\ proto.snapshots # <<>>
    /\ proto.changes # <<>>
    /\ \A i \in DOMAIN proto.changes :
           proto.changes[i].timestampNs < call.newMin
    /\ \A i \in DOMAIN proto.snapshots :
           proto.snapshots[i].timestampNs < call.newMin
    /\ Len(mSnapshots) = 1
    /\ mMap # EmptyBag
    /\ mBytesUsed > 0

\* C3: appendUidMap writes every retained snapshot newer than the key's last
\* update and, when mSnapshots is not empty, also its last snapshot, however
\* old that one is.
C3_LatestSnapshotAlwaysReturned ==
    [][Reconciled =>
         LET last == Lookup(mLastUpdatePerConfigKey, call'.key)
         IN  /\ \A i \in DOMAIN mSnapshots :
                    mSnapshots[i].timestampNs > last =>
                        In(mSnapshots[i], proto'.snapshots)
             /\ mSnapshots # <<>> =>
                    In(mSnapshots[Len(mSnapshots)], proto'.snapshots)]_vars

\* C4: appendUidMap writes exactly the retained changes newer than the key's
\* last update as it was before the call, each once and in the order of
\* mChanges; for a registered key that was never served these are all of
\* mChanges.
C4_ChangesSinceLastUpdate ==
    [][Reconciled =>
         LET last == Lookup(mLastUpdatePerConfigKey, call'.key)
             newer == {i \in DOMAIN mChanges : mChanges[i].timestampNs > last}
             \* the position in mChanges of the j-th newer change
             nth(j) == CHOOSE i \in newer :
                           Cardinality({k \in newer : k <= i}) = j
         IN  /\ Len(proto'.changes) = Cardinality(newer)
             /\ \A j \in 1 .. Cardinality(newer) :
                    proto'.changes[j] = mChanges[nth(j)]
             /\ (/\ call'.key \in DOMAIN mLastUpdatePerConfigKey
                 /\ mLastUpdatePerConfigKey[call'.key] = -1)
                    => proto'.changes = mChanges]_vars

\* An appendUidMap for a served key that skipped the older of two retained
\* changes and wrote the newer one.
C4_Witness ==
    /\ call.op = "appendUidMap"
    /\ Len(mChanges) = 2
    /\ mChanges[1].timestampNs < mChanges[2].timestampNs
    /\ proto.changes = <<mChanges[2]>>

\* C5: appendUidMap purges no change and no snapshot whose timestamp is at
\* least the smallest watermark of the map as it is after the key's
\* watermark is set, and the cutoff of a purge is that smallest watermark.
C5_PurgeBelowTrueMinimumOnly ==
    [][Reconciled =>
         LET min == TrueMin(mLastUpdatePerConfigKey')
         IN  /\ \A i \in DOMAIN mChanges :
                    mChanges[i].timestampNs >= min => In(mChanges[i], mChanges')
             /\ \A i \in DOMAIN mSnapshots :
                    mSnapshots[i].timestampNs >= min =>
                        In(mSnapshots[i], mSnapshots')
             /\ call'.newMin > call'.prevMin => call'.newMin = min]_vars

\* C6: a key is registered while mSnapshots is empty and appendUidMap is
\* called for it next, before any update: the call writes a snapshot.
C6_SnapshotForNewConsumer ==
    [][(/\ call.op = "OnConfigUpdated"
        /\ mSnapshots = <<>>
        /\ Reconciled
        /\ call'.key = call.key) => Len(proto'.snapshots) >= 1]_vars

\* C7: when appendUidMap has purged, mSnapshots is not empty; if every
\* snapshot was below the cutoff, what is left is one snapshot of the
\* current mMap stamped with the timestamp of the call.
C7_SnapshotAfterPurge ==
    [][(Reconciled /\ call'.newMin > call'.prevMin) =>
         /\ Len(mSnapshots') >= 1
         /\ (\A i \in DOMAIN mSnapshots :
                 mSnapshots[i].timestampNs < call'.newMin)
                => mSnapshots' = <<[timestampNs |-> call'.timestamp,
                                    bytes |-> mMap']>>]_vars

\* A purge that erased every snapshot it had just written out and left one
\* snapshot of a non-empty map, stamped with the call's timestamp.
C7_Witness ==
    /\ PurgeRan
    /\ proto.snapshots # <<>>
    /\ \A i \in DOMAIN proto.snapshots :
           proto.snapshots[i].timestampNs < call.newMin
    /\ mMap # EmptyBag
    /\ mSnapshots = <<[timestampNs |-> call.timestamp, bytes |-> mMap]>>

\* C8 as stated: with mSnapshots not empty and a key in the watermark map,
\* no updateMap, updateApp, removeApp or appendUidMap leaves mSnapshots empty.
C8_SnapshotLogNeverEmptied ==
    [][(/\ mSnapshots # <<>>
        /\ DOMAIN mLastUpdatePerConfigKey # {}
        /\ call'.op \in Mutators \cup {"appendUidMap"}
        /\ vars' # vars) => mSnapshots' # <<>>]_vars

\* C8 as amended: with mSnapshots not empty, appendUidMap never leaves it
\* empty, and updateMap, updateApp and removeApp leave it empty only when
\* what they add takes mBytesUsed above the limit.
C8_EmptiedOnlyByEviction ==
    [][(mSnapshots # <<>> /\ mSnapshots' = <<>> /\ vars' # vars) =>
         /\ call'.op # "appendUidMap"
         /\ call'.op = "updateMap" =>
                mBytesUsed + kBytesTimestampField + ProtoSize(mMap')
                    > Limit(maxBytesOverride)
         /\ call'.op \in {"updateApp", "removeApp"} =>
                mBytesUsed + kBytesChangeRecord > Limit(maxBytesOverride)]_vars

\* An appendUidMap with a registered key that wrote snapshots out, purged,
\* and left mSnapshots non-empty.
C8_Witness ==
    /\ PurgeRan
    /\ proto.snapshots # <<>>
    /\ call.newMin > 0
    /\ mChanges = <<>>
    /\ mSnapshots # <<>>

\* C9: no two entries of mMap have the same uid and package name.
C9_UniqueUidPackage ==
    /\ \A a \in BagToSet(mMap) : CopiesIn(a, mMap) = 1
    /\ \A a, b \in BagToSet(mMap) :
           (a.uid = b.uid /\ a.packageName = b.packageName) => a = b

\* C10 as stated: the watermark of a key that stays registered never goes
\* down, whatever appendUidMap and OnConfigUpdated calls are made.
C10_WatermarkNeverDecreases ==
    [][\A k \in DOMAIN mLastUpdatePerConfigKey \cap
                  DOMAIN mLastUpdatePerConfigKey' :
           mLastUpdatePerConfigKey'[k] >= mLastUpdatePerConfigKey[k]]_vars

\* C10 as amended: appendUidMap(timestamp, key) sets the key's watermark to
\* its timestamp, so the watermark does not go down when the timestamp is
\* at least the watermark; OnConfigUpdated(key) sets it back to -1; nothing
\* else changes the watermark of a registered key.
C10_WatermarkSetByCall ==
    [][\A k \in DOMAIN mLastUpdatePerConfigKey \cap
                  DOMAIN mLastUpdatePerConfigKey' :
           LET old == mLastUpdatePerConfigKey[k]
               new == mLastUpdatePerConfigKey'[k]
           IN  IF Reconciled /\ call'.key = k
               THEN new = call'.timestamp
                    /\ (call'.timestamp >= old => new >= old)
               ELSE IF call'.op = "OnConfigUpdated" /\ call'.key = k
                       /\ vars' # vars
               THEN new = -1
               ELSE new = old]_vars

\* An appendUidMap for the only key of the map, with a timestamp below the
\* watermark the key had: the watermark is now that timestamp.
C10_Witness ==
    /\ call.op = "appendUidMap"
    /\ DOMAIN mLastUpdatePerConfigKey = {call.key}
    /\ call.prevMin > call.timestamp
    /\ mLastUpdatePerConfigKey[call.key] = call.timestamp

\* A step that completes appendUidMap right after an appendUidMap with the
\* same key and timestamp: no other method ran in between.
Repeated ==
    /\ call.op = "appendUidMap"
    /\ Reconciled
    /\ call'.key = call.key
    /\ call'.timestamp = call.timestamp

\* C11 as stated: the second of two appendUidMap calls with the same key and
\* timestamp, nothing else being called in between, writes no change.
C11_SecondReconcileEmpty ==
    [][Repeated => proto'.changes = <<>>]_vars

\* C11 as amended: the second of two such calls writes exactly the retained
\* changes whose timestamp is above the timestamp of the calls, in the order
\* of mChanges, and so writes no change when no retained change is newer
\* than that timestamp.
C11_SecondReconcileNewerOnly ==
    [][Repeated =>
         LET newer == {i \in DOMAIN mChanges :
                           mChanges[i].timestampNs > call.timestamp}
             nth(j) == CHOOSE i \in newer :
                           Cardinality({k \in newer : k <= i}) = j
         IN  /\ Len(proto'.changes) = Cardinality(newer)
             /\ \A j \in 1 .. Cardinality(newer) :
                    proto'.changes[j] = mChanges[nth(j)]
             /\ (\A i \in DOMAIN mChanges :
                     mChanges[i].timestampNs <= call.timestamp)
                    => proto'.changes = <<>>]_vars

\* An appendUidMap for a key whose watermark already was the timestamp of
\* the call: it wrote none of the changes that are retained.
C11_Witness ==
    /\ call.op = "appendUidMap"
    /\ call.timestamp > 0
    /\ DOMAIN mLastUpdatePerConfigKey = {call.key}
    /\ call.prevMin = call.timestamp
    /\ call.newMin = call.timestamp
    /\ mChanges # <<>>
    /\ proto.changes = <<>>

\* C12: the eviction of updateMap, updateApp and removeApp takes records from
\* the front only, snapshots first: what is left of each list is its newest
\* records in their order, a change goes only when no snapshot is left, and
\* the loop stops at the first record whose removal brings mBytesUsed to the
\* limit or below.
C12_EvictsOldestSnapshotsFirst ==
    [][(call'.op \in Mutators /\ vars' # vars) =>
         LET limit == IF maxBytesOverride > 0 THEN maxBytesOverride
                      ELSE kMaxBytesUsedUidMap
             \* the record the method pushed before the eviction
             newS == IF call'.op = "updateMap" THEN 1 ELSE 0
             newC == 1 - newS
             \* how many records went from the front of each list
             evS == Len(mSnapshots) + newS - Len(mSnapshots')
             evC == Len(mChanges) + newC - Len(mChanges')
             \* bytes of the record that went last
             lastCost == IF evC > 0 THEN kBytesChangeRecord
                         ELSE IF evS <= Len(mSnapshots)
                         THEN ProtoSize(mSnapshots[evS].bytes)
                                  + kBytesTimestampField
                         ELSE ProtoSize(mMap') + kBytesTimestampField
         IN  /\ evS >= 0
             /\ evC >= 0
             /\ \A i \in DOMAIN mSnapshots' :
                    i + evS <= Len(mSnapshots) =>
                        mSnapshots'[i] = mSnapshots[i + evS]
             /\ \A i \in DOMAIN mChanges' :
                    i + evC <= Len(mChanges) => mChanges'[i] = mChanges[i + evC]
             /\ evC > 0 => mSnapshots' = <<>>
             /\ evS + evC > 0 => mBytesUsed' + lastCost > limit
             /\ mBytesUsed' <= limit]_vars

\* An updateMap over the limit: every snapshot went, the one it pushed
\* included, and the eviction stopped before the retained change.
C12_Witness ==
    /\ call.op = "updateMap"
    /\ mMap # EmptyBag
    /\ mSnapshots = <<>>
    /\ mChanges # <<>>
    /\ mBytesUsed = Len(mChanges) * kBytesChangeRecord

\* C13: when the purge of appendUidMap erases every snapshot and a snapshot
\* of mMap is produced, its bytes are added to mBytesUsed, and mBytesUsed is
\* at most the limit when appendUidMap returns.
C13_ProducedSnapshotWithinLimit ==
    [][(/\ Reconciled
        /\ call'.newMin > call'.prevMin
        /\ \A i \in DOMAIN mSnapshots :
               mSnapshots[i].timestampNs < call'.newMin) =>
         /\ mBytesUsed' = Len(mChanges') * kBytesChangeRecord
                              + kBytesTimestampField + ProtoSize(mMap)
         /\ mBytesUsed' <= (IF maxBytesOverride > 0 THEN maxBytesOverride
                            ELSE kMaxBytesUsedUidMap)]_vars

\* C17: appendUidMap for a key that is not in mLastUpdatePerConfigKey does
\* what it does for a key that OnConfigUpdated has just put there with -1:
\* it writes every retained change and snapshot, its watermark becomes the
\* timestamp, and since the smallest watermark before the call counts as -1
\* it purges whenever the smallest watermark after the call is 0 or more.
C17_UnknownKeyAsNeverServed ==
    [][(Reconciled /\ call'.key \notin DOMAIN mLastUpdatePerConfigKey) =>
         /\ proto'.changes = mChanges
         /\ proto'.snapshots = mSnapshots
         /\ mLastUpdatePerConfigKey'[call'.key] = call'.timestamp
         /\ call'.newMin > -1 =>
                /\ \A i \in DOMAIN mChanges' :
                       mChanges'[i].timestampNs >= call'.newMin
                /\ \A i \in DOMAIN mSnapshots' :
                       mSnapshots'[i].timestampNs >= call'.newMin
                       \/ mSnapshots' = <<[timestampNs |-> call'.timestamp,
                                           bytes |-> mMap]>>
                /\ mSnapshots' # <<>>]_vars

\* C19: when appendUidMap finds the smallest watermark moved forward to
\* newMin, no change and no snapshot with a timestamp below newMin is
\* retained on return; when it did not move forward, mChanges, mSnapshots
\* and mBytesUsed are as they were.
C19_NothingBelowNewMinimumRetained ==
    [][Reconciled =>
         IF call'.newMin > call'.prevMin
         THEN /\ \A i \in DOMAIN mChanges' :
                     mChanges'[i].timestampNs >= call'.newMin
              /\ \A i \in DOMAIN mSnapshots' :
                     mSnapshots'[i].timestampNs >= call'.newMin
         ELSE UNCHANGED <<mChanges, mSnapshots, mBytesUsed>>]_vars

\* C20: in every reachable state the loop of ensureBytesUsedBelowLimit
\* exits, whatever updateMap, updateApp or removeApp pushed before it: it is
\* never left with mBytesUsed above the limit and both lists empty.
C20_EvictionLoopTerminates ==
    /\ \A t \in Times, entries \in EntryVectors(Uids, Packages, Versions) :
           ~ensureBytesUsedBelowLimit(
                Append(mSnapshots, SnapshotRecord(t, BagOfSeq(entries))),
                mChanges,
                mBytesUsed + ProtoSize(BagOfSeq(entries))
                    + kBytesTimestampField).spin
    /\ \A t \in Times, app \in Packages, uid \in Uids, v \in Versions,
          deletion \in BOOLEAN :
           ~ensureBytesUsedBelowLimit(
                mSnapshots,
                Append(mChanges, ChangeRecord(deletion, t, app, uid, v)),
                mBytesUsed + kBytesChangeRecord).spin

\* An updateMap whose loop took every record, its own snapshot last, and
\* exited with both lists empty.
C20_Witness ==
    /\ call.op = "updateMap"
    /\ mMap # EmptyBag
    /\ mSnapshots = <<>>
    /\ mChanges = <<>>
    /\ mBytesUsed = 0

\* C18: removeApp(timestamp, app, uid) erases one entry of mMap with that
\* uid and package name when there is one and leaves every other entry as it
\* was; without such an entry mMap is unchanged; in both cases one deletion
\* record carrying the timestamp, the uid and the package is pushed to the
\* back of mChanges before the eviction, which takes records from the front
\* only.
C18_RemoveErasesOneEntry ==
    [][(call'.op = "removeApp" /\ vars' # vars) =>
         /\ Len(mChanges') >= 1
         /\ LET record == mChanges'[Len(mChanges')]
                matches(a) == a.uid = record.uid
                                  /\ a.packageName = record.package
                entries == BagToSet(mMap) \cup BagToSet(mMap')
                copies(a, map) == IF a \in BagToSet(map)
                                  THEN CopiesIn(a, map) ELSE 0
                RECURSIVE sum(_, _)
                sum(S, map) ==
                    IF S = {} THEN 0
                    ELSE LET a == CHOOSE x \in S : TRUE
                         IN  copies(a, map) + sum(S \ {a}, map)
                matching == {a \in entries : matches(a)}
                evicted == Len(mChanges) + 1 - Len(mChanges')
            IN  /\ record.deletion
                /\ record.timestampNs = call'.timestamp
                /\ \A a \in entries :
                       ~matches(a) => copies(a, mMap') = copies(a, mMap)
                /\ sum(matching, mMap) = 0 => mMap' = mMap
                /\ sum(matching, mMap) > 0 =>
                       sum(matching, mMap') = sum(matching, mMap) - 1
                /\ evicted >= 0
                /\ \A i \in 1 .. Len(mChanges') - 1 :
                       mChanges'[i] = mChanges[i + evicted]]_vars

\* A removeApp that left no entry of its uid and package, with another entry
\* of the same uid and an entry of another uid still in mMap.
C18_Witness ==
    /\ call.op = "removeApp"
    /\ mChanges # <<>>
    /\ LET record == mChanges[Len(mChanges)]
       IN  /\ record.deletion
           /\ \A a \in BagToSet(mMap) :
                  ~(a.uid = record.uid /\ a.packageName = record.package)
           /\ \E a \in BagToSet(mMap) :
                  a.uid = record.uid /\ a.packageName # record.package
           /\ \E a \in BagToSet(mMap) : a.uid # record.uid

\* C14: getHostUidOrSelf(uid) returns uid when mIsolatedUidMap has no entry
\* for it and the stored parent otherwise; assignIsolatedUid(uid, parent)
\* makes parent the stored parent of uid, replacing an earlier one;
\* removeIsolatedUid(uid, p) leaves no entry for uid whatever p is; and no
\* call changes the entry of another uid.  So a lookup right after an
\* assignment returns the parent assigned, and right after a removal the
\* uid itself.
C14_HostUidOrSelf ==
    [][LET new == isolatedCall'
           has(map, u) == u \in DOMAIN map
       IN  isolatedCall' # isolatedCall =>
             /\ \A u \in IsolatedUids \ {new.uid} :
                    /\ has(mIsolatedUidMap', u) = has(mIsolatedUidMap, u)
                    /\ has(mIsolatedUidMap, u) =>
                           mIsolatedUidMap'[u] = mIsolatedUidMap[u]
             /\ new.op = "assignIsolatedUid" =>
                    /\ has(mIsolatedUidMap', new.uid)
                    /\ mIsolatedUidMap'[new.uid] = new.parentUid
             /\ new.op = "removeIsolatedUid" =>
                    ~has(mIsolatedUidMap', new.uid)
             /\ new.op = "getHostUidOrSelf" =>
                    /\ mIsolatedUidMap' = mIsolatedUidMap
                    /\ ~has(mIsolatedUidMap, new.uid) => new.result = new.uid
                    /\ has(mIsolatedUidMap, new.uid) =>
                           new.result = mIsolatedUidMap[new.uid]
                    /\ (isolatedCall.op = "assignIsolatedUid"
                            /\ isolatedCall.uid = new.uid)
                           => new.result = isolatedCall.parentUid
                    /\ (isolatedCall.op = "removeIsolatedUid"
                            /\ isolatedCall.uid = new.uid)
                           => new.result = new.uid]_vars

\* A getHostUidOrSelf for a uid that has a parent other than itself, while
\* another uid has an entry too: the parent was returned.
C14_Witness ==
    /\ isolatedCall.op = "getHostUidOrSelf"
    /\ isolatedCall.uid \in DOMAIN mIsolatedUidMap
    /\ isolatedCall.result # isolatedCall.uid
    /\ isolatedCall.result = mIsolatedUidMap[isolatedCall.uid]
    /\ DOMAIN mIsolatedUidMap # {isolatedCall.uid}

\* The listeners in a thread's local copy of the list.
Copied(list) == {list[i] : i \in DOMAIN list}
\* The step that ends the critical section of updateMap, updateApp or
\* removeApp in thread th.
EndsSection(th) ==
    pc[th].at = "locked" /\ pc[th].op \in Mutators /\ pc'[th].at # "locked"
\* The step after which updateMap, updateApp or removeApp returns in th.
Returns(th) ==
    /\ pc[th].op \in Mutators
    /\ pc[th].at \in {"locked", "notify"}
    /\ pc'[th] = Idle
\* The copy is taken with mMutex held, of the subscribers that are alive,
\* and mMutex is released with it; a listener is called only from the loop
\* over the copy, by a thread that does not hold mMutex.
CopiedInsideCalledOutside(th) ==
    /\ EndsSection(th) =>
           /\ mMutex = th
           /\ mMutex' # th
           /\ Copied(broadcastList'[th]) = mSubscribers \cap alive
           /\ notified'[th] = {}
    /\ notified'[th] \ notified[th] # {} =>
           /\ pc[th].at = "notify"
           /\ mMutex # th
           /\ notified'[th] = notified[th] \cup {broadcastList[th][pc[th].i]}
           /\ broadcastList'[th] = broadcastList[th]

\* C15 as stated: the listeners are copied inside the critical section and
\* called only after mMutex is released, and when updateMap, updateApp or
\* removeApp returns it has called exactly the listeners of its copy, those
\* subscribed and alive when the copy was taken.
C15_CallsExactlyTheCopy ==
    [][\A th \in Threads :
           /\ CopiedInsideCalledOutside(th)
           /\ Returns(th) => notified'[th] = Copied(broadcastList'[th])]_vars

\* C15 as amended: the same, except that the method has called those
\* listeners of its copy that were still alive when their turn came: one
\* unsubscribed after the copy is called, one destroyed after it is not.
C15_CallsTheCopyStillAlive ==
    [][\A th \in Threads :
           /\ CopiedInsideCalledOutside(th)
           /\ Returns(th) =>
                  /\ notified'[th] \subseteq Copied(broadcastList'[th])
                  /\ \A listener \in Copied(broadcastList'[th]) :
                         listener \in alive => listener \in notified'[th]
                  /\ \A listener \in notified'[th] \ notified[th] :
                         listener \in alive]_vars

\* A method has returned after calling a listener of its copy that is no
\* longer subscribed, while the other thread holds mMutex.
C15_Witness ==
    \E th \in Threads :
        /\ pc[th] = Idle
        /\ notified[th] # {}
        /\ notified[th] = Copied(broadcastList[th])
        /\ notified[th] \cap mSubscribers = {}
        /\ mMutex \in Threads \ {th}

\* C16: a thread that is inside the body of a method reading or writing
\* mLastUpdatePerConfigKey, mChanges, mSnapshots or mBytesUsed holds mMutex;
\* so OnConfigUpdated and OnConfigRemoved never run while another thread is
\* in the critical section of appendUidMap, updateMap, updateApp or
\* removeApp, and no two unsynchronized accesses overlap.
C16_GuardedFieldsUnderLock ==
    /\ \A th \in Threads : InBody(th) => mMutex = th
    /\ \A a, b \in Threads :
           (/\ pc[a].at = "running"
            /\ pc[a].op \in {"OnConfigUpdated", "OnConfigRemoved"})
               => pc[b].at # "locked"
    /\ ~raced

\* C22: OnConfigRemoved(key) erases the entry of key from
\* mLastUpdatePerConfigKey and nothing else: every other key keeps its
\* watermark, and mChanges, mSnapshots, mBytesUsed and mMap are as they were,
\* so no record is purged, also when the smallest watermark left is above
\* the smallest one before the call.
C22_RemoveErasesOnlyTheWatermark ==
    [][(call'.op = "OnConfigRemoved" /\ vars' # vars) =>
         /\ DOMAIN mLastUpdatePerConfigKey' =
                DOMAIN mLastUpdatePerConfigKey \ {call'.key}
         /\ \A k \in DOMAIN mLastUpdatePerConfigKey' :
                mLastUpdatePerConfigKey'[k] = mLastUpdatePerConfigKey[k]
         /\ mChanges' = mChanges
         /\ mSnapshots' = mSnapshots
         /\ mBytesUsed' = mBytesUsed
         /\ mMap' = mMap]_vars

\* An OnConfigRemoved has left only watermarks above the timestamps of a
\* retained change and of a retained snapshot: records that a purge with the
\* minimum that is left would erase are still there.
C22_Witness ==
    /\ call.op = "OnConfigRemoved"
    /\ DOMAIN mLastUpdatePerConfigKey # {}
    /\ \E i \in DOMAIN mChanges :
           mChanges[i].timestampNs < TrueMin(mLastUpdatePerConfigKey)
    /\ \E i \in DOMAIN mSnapshots :
           mSnapshots[i].timestampNs < TrueMin(mLastUpdatePerConfigKey)
    /\ mBytesUsed > 0

\* The entries the calls so far describe, one per pair.
ExpectedEntries ==
    {AppData(pair[1], pair[2], expected[pair]) : pair \in DOMAIN expected}

\* mMap holds one entry per pair the calls describe, with the version set
\* last, whatever the eviction took from the two lists; and each const
\* method returns what that map says.
StoreActsAsMap ==
    /\ mMap = SetToBag(ExpectedEntries)
    /\ lookup.op = "getAppVersion" =>
           /\ <<lookup.uid, lookup.packageName>> \in DOMAIN expected =>
                  lookup.version = expected[<<lookup.uid, lookup.packageName>>]
    /\ lookup.op = "hasApp" =>
           lookup.has = (<<lookup.uid, lookup.packageName>> \in DOMAIN expected)
    /\ lookup.op = "getAppNamesFromUid" =>
           lookup.names =
               {IF lookup.returnNormalized THEN normalizeAppName(pair[2])
                ELSE pair[2] :
                    pair \in {q \in DOMAIN expected : q[1] = lookup.uid}}
    /\ lookup.op = "getAppUid" =>
           lookup.uids = {pair[1] : pair \in {q \in DOMAIN expected :
                                                  q[2] = lookup.packageName}}

\* What getAppVersion returns for a pair that is not stored is not a
\* version that a stored pair can have.
NotFoundIsNoVersion ==
    (/\ lookup.op = "getAppVersion"
     /\ <<lookup.uid, lookup.packageName>> \notin DOMAIN expected)
        => lookup.version \notin LookupVersions

\* C21: mMap acts as a map keyed by (uid, packageName): after any updateMap
\* (of distinct pairs), updateApp and removeApp, getAppVersion returns the
\* version the pair was last given, and for a pair that is not stored a
\* value that tells it from a stored version 0; getAppNamesFromUid and
\* getAppUid return exactly the packages and uids of the entries present;
\* and the contents of mMap do not depend on what was evicted.
C21_StoreIsAMapWithNotFound ==
    /\ StoreActsAsMap
    /\ NotFoundIsNoVersion

\* C23: a thread in assignIsolatedUid, removeIsolatedUid or getHostUidOrSelf
\* holds mIsolatedMutex and not mMutex, and no thread ever holds both; so
\* such a method is entered whenever mIsolatedMutex is free and runs to its
\* end once entered, whoever holds mMutex; and no thread that holds a mutex
\* waits for anything, so every mutex taken is released and no interleaving
\* of the methods deadlocks.
C23_IsolatedMutexIndependent ==
    /\ \A th \in Threads :
           /\ pc[th].op \in IsolatedOps <=> mIsolatedMutex = th
           /\ pc[th].op \in IsolatedOps => mMutex # th
           /\ ~(mMutex = th /\ mIsolatedMutex = th)
           /\ pc[th].at = "isolated" => ENABLED SectionIsolated(th, {1}, {2})
           /\ (pc[th] = Idle /\ mIsolatedMutex = 0) =>
                  \A op \in IsolatedOps : ENABLED AcquireIsolated(th, op)
           /\ pc[th].at = "locked" =>
                  ENABLED Section(th, {0}, Uids, Packages, Versions, {"k1"})
           /\ pc[th].at = "notify" => ENABLED Callback(th)
           /\ (pc[th] = Idle /\ mMutex = 0) =>
                  \A op \in LockedOps : ENABLED Acquire(th, op)
    /\ ENABLED NextLocks

\* One thread is in the critical section of a method that takes mMutex
\* while the other, with an alias already stored, is inside an isolated-uid
\* method, which can run to its end right there.
C23_Witness ==
    \E th \in Threads, other \in Threads :
        /\ th # other
        /\ mMutex = other
        /\ pc[other].at = "locked"
        /\ mIsolatedMutex = th
        /\ pc[th].at = "isolated"
        /\ mIsolatedUidMap # <<>>
        /\ ENABLED SectionIsolated(th, {1}, {2})
====
